---- MODULE Spec2Model ----
(***************************************************************************)
(* A model of the reader of Booker (src/pages/reader.py, class ReaderPage) *)
(* as the application drives it (src/app.py): the paginator of EPUB        *)
(* content, the table of contents, the debounced resize, the font          *)
(* controls, navigation, and the PDF document handle.                      *)
(*                                                                         *)
(* Texts are sequences of one-character strings, so that slicing,          *)
(* strip() and rfind() are computed on characters as the code does.        *)
(***************************************************************************)
EXTENDS Integers, Sequences, FiniteSets, TLC

(***************************************************************************)
(* Arithmetic and string primitives of Python that the code relies on.     *)
(***************************************************************************)

Max(a, b) == IF a >= b THEN a ELSE b

Min(a, b) == IF a <= b THEN a ELSE b

\* The largest and the smallest element of a non-empty set of integers.
SetMax(S) == CHOOSE x \in S : \A y \in S : y <= x

SetMin(S) == CHOOSE x \in S : \A y \in S : x <= y

\* int(a / b) for b # 0: Python's int() truncates towards zero.
TruncDiv(a, b) ==
    IF (a >= 0) = (b > 0)
        THEN (IF a >= 0 THEN a ELSE -a) \div (IF b > 0 THEN b ELSE -b)
        ELSE -((IF a >= 0 THEN a ELSE -a) \div (IF b > 0 THEN b ELSE -b))

\* The index at which Python clamps the slice bound n of a sequence of length len.
SliceIndex(len, n) == IF n >= 0 THEN Min(n, len) ELSE Max(len + n, 0)

\* s[:n]
SliceTo(s, n) == SubSeq(s, 1, SliceIndex(Len(s), n))

\* s[n:]
SliceFrom(s, n) == SubSeq(s, SliceIndex(Len(s), n) + 1, Len(s))

\* The characters str.strip() removes.
Whitespace == {" ", "\n"}

\* s.strip()
Strip(s) ==
    LET keep == {i \in 1..Len(s) : s[i] \notin Whitespace}
    IN  IF keep = {} THEN <<>> ELSE SubSeq(s, SetMin(keep), SetMax(keep))

\* s.rfind(c): the 0-based index of the last c in s, -1 when there is none.
RFind(s, c) ==
    LET at == {i \in 1..Len(s) : s[i] = c}
    IN  IF at = {} THEN -1 ELSE SetMax(at) - 1

\* s.count(c)
Count(s, c) == Cardinality({i \in 1..Len(s) : s[i] = c})

(***************************************************************************)
(* Font metrics. tkinter.font.Font is not part of the repository: the      *)
(* model fixes one rendering of it. A font of `size` points has a          *)
(* linespace of 4/3 pixel per point (96 dpi); a glyph advances 0.42 of the *)
(* size (the average the paginator itself assumes), a wide glyph ("W") the *)
(* full size, a space a quarter of it.                                     *)
(***************************************************************************)

\* ReaderPage._font_cache, a dict of the class: the set of its items,
\* [key, font]. A font is told by its size in points.
VARIABLE font_cache

\* self.font_family
font_family == "Georgia"

\* font.Font(family, size = font_size + (4 if is_header else 0), weight):
\* headers are set 4 points larger (and bold).
NewFont(font_size, is_header) == font_size + (IF is_header THEN 4 ELSE 0)

\* A cache key that does not tell headers from body text.
font_key_by_size(family, font_size, is_header) == <<family, font_size, FALSE>>

\* Line 550: cache_key of _get_font
font_key(family, font_size, is_header) == <<family, font_size, is_header>>

\* Lines 551-556: the cache after _get_font.
cache_font(cache, font_size, is_header) ==
    IF \E e \in cache : e.key = font_key(font_family, font_size, is_header)
        THEN cache
        ELSE cache \cup {[key |-> font_key(font_family, font_size, is_header),
                          font |-> NewFont(font_size, is_header)]}

\* _get_font: the font the cache holds under the key; on a miss, the font
\* lines 551-556 create and cache.
get_font(font_size, is_header) ==
    LET held == {e \in font_cache :
                    e.key = font_key(font_family, font_size, is_header)}
    IN  IF held = {} THEN NewFont(font_size, is_header)
        ELSE (CHOOSE e \in held : TRUE).font

\* f.metrics('linespace')
linespace(f) == (f * 4) \div 3

GlyphWidth(c, f) ==
    IF c = "W" THEN f
    ELSE IF c = " " THEN f \div 4
    ELSE IF c = "\n" THEN 0
    ELSE (f * 42) \div 100

RECURSIVE measure(_, _)
\* f.measure(text): the pixel width of the text on one line.
measure(text, f) ==
    IF text = <<>> THEN 0
    ELSE GlyphWidth(Head(text), f) + measure(Tail(text), f)

\* _measure_text_height, for width # 0 (width = 0 raises ZeroDivisionError,
\* which the callers below decide before they measure).
measure_text_height(text, font_size, width, is_header) ==
    LET f == get_font(font_size, is_header)
        num_lines == Max(1, TruncDiv(measure(text, f) * 108, width * 100) + 1)
        newline_lines == Count(text, "\n") + 1
    IN  Max(num_lines, newline_lines) * linespace(f)

(***************************************************************************)
(* Content blocks: the dicts _load_epub appends to structured_content.     *)
(***************************************************************************)

TextBlock(text, is_header, header_level, links) ==
    [type |-> "text", text |-> text, is_header |-> is_header,
     header_level |-> header_level, links |-> links]

ImageBlock(image) == [type |-> "image", image |-> image, is_header |-> FALSE]

LinkBlock(text, url) ==
    [type |-> "link", text |-> text, url |-> url, is_header |-> FALSE,
     header_level |-> 0]

\* The dict the splitting loop appends for a piece of a paragraph.
ChunkBlock(text, is_header) ==
    [type |-> "text", text |-> text, is_header |-> is_header]

(***************************************************************************)
(* The paginator, _repaginate_epub, as steps over a loop state             *)
(*   pages   self.pages                                                    *)
(*   cur, h  current_page_items, current_height                            *)
(*   rem     remaining_text of the paragraph being split                   *)
(*   hdr     is_header of that paragraph                                   *)
(*   at      "items": in the for loop; "split": in the while loop;         *)
(*           "raised": ZeroDivisionError left the function.                *)
(***************************************************************************)

\* Estimated height of an image: 350 + 20 (img_h + pady).
img_h == 370

\* Paragraph spacing.
p_spacing == 10

\* _calculate_page_dimensions: win = <<winfo_width, winfo_height>>.
calculate_page_dimensions(win) ==
    LET window_height == win[2] - 140
        available_width == win[1] - 60
    IN  <<TruncDiv(available_width - 10, 2), window_height - 40>>

available_height(win) == calculate_page_dimensions(win)[2] - 50

wrap_width(win) == calculate_page_dimensions(win)[1] - 80

PagStart ==
    [pages |-> <<>>, cur |-> <<>>, h |-> 0, rem |-> <<>>, hdr |-> FALSE,
     at |-> "items"]

\* Lines 605-615: an image block.
place_image(st, item, avail) ==
    IF st.h + img_h > avail /\ st.cur # <<>>
        THEN [st EXCEPT !.pages = Append(@, st.cur), !.cur = <<item>>, !.h = img_h]
        ELSE [st EXCEPT !.cur = Append(@, item), !.h = @ + img_h]

\* Lines 617-629: a text block either fits whole or enters the splitting loop.
place_text(st, item, font_size, wrap, avail) ==
    IF wrap = 0
        THEN [st EXCEPT !.at = "raised"]
        ELSE LET height == measure_text_height(item.text, font_size, wrap, item.is_header)
             IN  IF st.h + height + p_spacing <= avail
                     THEN [st EXCEPT !.cur = Append(@, item),
                                     !.h = @ + height + p_spacing]
                     ELSE [st EXCEPT !.rem = item.text, !.hdr = item.is_header,
                                     !.at = IF item.text = <<>> THEN "items" ELSE "split"]

\* Lines 602-629: one pass of the for loop up to the splitting loop. A link
\* block matches neither branch and is passed over.
place_item(st, item, font_size, wrap, avail) ==
    IF item.type = "image" THEN place_image(st, item, avail)
    ELSE IF item.type = "text" THEN place_text(st, item, font_size, wrap, avail)
    ELSE st

\* Lines 631-678: one iteration of `while remaining_text` (wrap # 0 here:
\* place_text raised otherwise).
split_iteration(st, font_size, wrap, avail) ==
    LET line_height == linespace(get_font(font_size, st.hdr))
        space_left == avail - st.h
        lines_that_fit == Max(0, TruncDiv(space_left, line_height))
        chars_per_line == TruncDiv(wrap * 100, font_size * 42)
        total_chars_that_fit == lines_that_fit * chars_per_line
        chunk == SliceTo(st.rem, total_chars_that_fit)
        last_space == RFind(chunk, " ")
        split_idx == IF 10 * last_space > 8 * total_chars_that_fit
                         THEN last_space ELSE total_chars_that_fit
        page_chunk == Strip(SliceTo(st.rem, split_idx))
        rest == Strip(SliceFrom(st.rem, split_idx))
    IN  IF lines_that_fit < 2 /\ st.cur # <<>>
            THEN [st EXCEPT !.pages = Append(@, st.cur), !.cur = <<>>, !.h = 0]
        ELSE IF Len(st.rem) <= total_chars_that_fit
            THEN [st EXCEPT !.cur = Append(@, ChunkBlock(st.rem, st.hdr)),
                            !.h = @ + measure_text_height(st.rem, font_size, wrap, st.hdr)
                                    + p_spacing,
                            !.rem = <<>>, !.at = "items"]
        ELSE [st EXCEPT !.pages = Append(@, IF page_chunk = <<>> THEN st.cur
                                             ELSE Append(st.cur, ChunkBlock(page_chunk, st.hdr))),
                        !.cur = <<>>, !.h = 0, !.rem = rest,
                        !.at = IF rest = <<>> THEN "items" ELSE "split"]

\* Lines 680-682: the final page.
final_pages(st) == IF st.cur # <<>> THEN Append(st.pages, st.cur) ELSE st.pages

\* The loop state after an iteration equals the loop state before it: the
\* while loop then repeats that iteration for ever (appending a page each time).
Diverges(st, font_size, wrap, avail) ==
    LET n == split_iteration(st, font_size, wrap, avail)
    IN  n.rem = st.rem /\ n.cur = st.cur /\ n.h = st.h /\ n.at = "split"

RECURSIVE run_split(_, _, _, _)
\* The while loop run to its end, or to the iteration that repeats ("hang").
run_split(st, font_size, wrap, avail) ==
    IF st.at # "split" THEN st
    ELSE IF Diverges(st, font_size, wrap, avail) THEN [st EXCEPT !.at = "hang"]
    ELSE run_split(split_iteration(st, font_size, wrap, avail), font_size, wrap, avail)

RECURSIVE run_items(_, _, _, _, _, _)
\* The for loop over structured_content from item i on.
run_items(st, content, i, font_size, wrap, avail) ==
    IF st.at # "items" \/ i > Len(content) THEN st
    ELSE run_items(run_split(place_item(st, content[i], font_size, wrap, avail),
                             font_size, wrap, avail),
                   content, i + 1, font_size, wrap, avail)

\* _repaginate_epub as a whole: what it leaves in self.pages and
\* self.total_pages, and how it ended:
\*   "skipped"  structured_content is empty, lines 586-587 return at once
\*   "ok"       ran to line 685
\*   "raised"   ZeroDivisionError in _measure_text_height (wrap_width = 0)
\*   "hang"     the splitting loop never ends
repaginate_epub(content, old_pages, old_total, win, font_size) ==
    IF content = <<>>
        THEN [outcome |-> "skipped", pages |-> old_pages, total_pages |-> old_total]
        ELSE LET st == run_items(PagStart, content, 1, font_size,
                                 wrap_width(win), available_height(win))
             IN  IF st.at = "items"
                     THEN [outcome |-> "ok", pages |-> final_pages(st),
                           total_pages |-> IF final_pages(st) = <<>> THEN 1
                                           ELSE Len(final_pages(st))]
                     ELSE [outcome |-> st.at, pages |-> st.pages,
                           total_pages |-> old_total]

(***************************************************************************)
(* The PDF render cache, self._pdf_page_cache: a dict, which keeps its     *)
(* keys in insertion order; the model keeps the sequence of keys.          *)
(***************************************************************************)

\* The size the cache is compared with before an insertion.
cache_limit == 20

\* A load that leaves the cache as it is.
clear_cache_never(cache) == cache

\* Line 696: self._pdf_page_cache.clear()
clear_cache(cache) == <<>>

\* _render_pdf_page: a hit leaves the cache alone; a miss inserts the key
\* with the photo made of that page of the open document, after the oldest
\* key was removed when the cache held more than 20.
render_pdf_page(cache, doc, cache_key) ==
    IF \E i \in 1..Len(cache) : cache[i].key = cache_key THEN cache
    ELSE Append(IF Len(cache) > cache_limit THEN Tail(cache) ELSE cache,
                [key |-> cache_key, photo |-> <<doc.name, cache_key[1]>>])

\* _show_pdf_spread: the left page, then the right page, as far as the
\* document has them.
show_pdf_spread(cache, doc, spread, w) ==
    LET max_width == calculate_page_dimensions(w)[1] - 80
        max_height == calculate_page_dimensions(w)[2] - 100
        left_idx == spread * 2
        right_idx == left_idx + 1
        left == IF left_idx < doc.page_count
                    THEN render_pdf_page(cache, doc,
                                         <<left_idx, max_width, max_height>>)
                    ELSE cache
    IN  IF doc.handle = 0 THEN cache
        ELSE IF right_idx < doc.page_count
            THEN render_pdf_page(left, doc, <<right_idx, max_width, max_height>>)
            ELSE left

(***************************************************************************)
(* The table of contents. An entry is                                      *)
(*   [title, page_index, depth, children]; a forest is a sequence of       *)
(* entries. The code's references current_h1/2/3 to entries of the forest  *)
(* are paths (index sequences); <<>> is None.                              *)
(***************************************************************************)

TocEntry(title, page_index, depth) ==
    [title |-> title, page_index |-> page_index, depth |-> depth, children |-> <<>>]

RECURSIVE ChildrenAt(_, _)
\* The children list of the entry at `path` (the forest itself for <<>>).
ChildrenAt(forest, path) ==
    IF path = <<>> THEN forest
    ELSE ChildrenAt(forest[Head(path)].children, Tail(path))

RECURSIVE AppendAt(_, _, _)
\* parent['children'].append(entry), or self.toc_entries.append(entry) for <<>>.
AppendAt(forest, path, entry) ==
    IF path = <<>> THEN Append(forest, entry)
    ELSE [forest EXCEPT ![Head(path)].children = AppendAt(@, Tail(path), entry)]

\* _parse_toc_items. A navigation item is [kind |-> "link", title], an
\* object with a title; [kind |-> "section", title, children], a pair
\* (section, children); [kind |-> "untitled"], an object without a title,
\* which is passed over; or [kind |-> "odd"], a tuple that is not a pair, at
\* which `section, children = item` raises. Every entry, of any depth, is
\* appended to self.toc_entries; the list the recursive call returns, which
\* is assigned to entry['children'], is always empty. The result is
\* self.toc_entries when the walk ended and whether it ended by raising.
RECURSIVE parse_toc_items(_, _, _)
parse_toc_items(entries, toc_items, depth) ==
    IF toc_items = <<>> THEN [entries |-> entries, raised |-> FALSE]
    ELSE LET item == Head(toc_items)
             with_item == Append(entries, TocEntry(item.title, Len(entries), depth))
             after == IF item.kind = "section" /\ item.children # <<>>
                          THEN parse_toc_items(with_item, item.children, depth + 1)
                          ELSE [entries |-> with_item, raised |-> FALSE]
         IN  IF item.kind = "odd" THEN [entries |-> entries, raised |-> TRUE]
             ELSE IF item.kind = "untitled"
                 THEN parse_toc_items(entries, Tail(toc_items), depth)
             ELSE IF after.raised THEN after
             ELSE parse_toc_items(after.entries, Tail(toc_items), depth)

\* A header taken into the forest as a top-level entry, whatever its level.
attach_header_flat(g, item) ==
    [g EXCEPT !.toc = Append(@, TocEntry(item.text, g.current_page, 0))]

\* Lines 1210-1255: one header taken into the forest.
\* g = [toc, h1, h2, h3, current_page, items_on_page].
attach_header(g, item) ==
    LET level == item.header_level
        parent == IF level = 1 THEN <<>>
                  ELSE IF level = 2 THEN g.h1
                  ELSE IF level = 3 THEN (IF g.h2 # <<>> THEN g.h2 ELSE g.h1)
                  ELSE (IF g.h3 # <<>> THEN g.h3
                        ELSE IF g.h2 # <<>> THEN g.h2 ELSE g.h1)
        depth == IF level = 1 THEN 0 ELSE IF level = 2 THEN 1
                 ELSE IF level = 3 THEN 2 ELSE 3
        entry == TocEntry(item.text, g.current_page, depth)
        here == Append(parent, Len(ChildrenAt(g.toc, parent)) + 1)
    IN  [g EXCEPT !.toc = AppendAt(@, parent, entry),
                  !.h1 = IF level = 1 THEN here ELSE @,
                  !.h2 = IF level = 1 THEN <<>> ELSE IF level = 2 THEN here ELSE @,
                  !.h3 = IF level \in {1, 2} THEN <<>> ELSE IF level = 3 THEN here ELSE @]

RECURSIVE toc_from_headers(_, _, _)
\* _generate_toc_from_headers: the loop over structured_content from item i on.
toc_from_headers(g, content, i) ==
    IF i > Len(content) THEN g.toc
    ELSE LET item == content[i]
             g1 == IF item.type = "text" /\ item.is_header /\ Len(item.text) < 80
                       THEN attach_header(g, item) ELSE g
             g2 == IF g1.items_on_page + 1 > 8
                       THEN [g1 EXCEPT !.current_page = @ + 1, !.items_on_page = 0]
                       ELSE [g1 EXCEPT !.items_on_page = @ + 1]
         IN  toc_from_headers(g2, content, i + 1)

generate_toc_from_headers(content) ==
    toc_from_headers([toc |-> <<>>, h1 |-> <<>>, h2 |-> <<>>, h3 |-> <<>>,
                      current_page |-> 0, items_on_page |-> 0], content, 1)

\* _extract_toc_from_epub: an exception of the walk is passed over, and
\* self.toc_entries is as the walk left it; the native navigation when that
\* holds entries,
\* otherwise the headers.
extract_toc_from_epub(toc, content) ==
    LET native == IF toc # <<>> THEN parse_toc_items(<<>>, toc, 0).entries ELSE <<>>
    IN  IF native # <<>> THEN native ELSE generate_toc_from_headers(content)

\* The pages (0-based) that hold a header block with this text.
HeaderPages(pgs, text) ==
    {i - 1 : i \in {k \in 1..Len(pgs) :
        \E j \in 1..Len(pgs[k]) :
            /\ pgs[k][j].type = "text"
            /\ "is_header" \in DOMAIN pgs[k][j]      \* item.get('is_header', False)
            /\ pgs[k][j].is_header
            /\ pgs[k][j].text = text}}

\* _update_toc_page_indices over pages of content blocks: header_to_page keeps
\* the last page of a text; only the entries of self.toc_entries themselves
\* are visited.
update_toc_page_indices(entries, pgs) ==
    IF entries = <<>> \/ pgs = <<>> THEN entries
    ELSE [i \in 1..Len(entries) |->
            LET at == HeaderPages(pgs, Strip(entries[i].title))
            IN  IF at # {} THEN [entries[i] EXCEPT !.page_index = SetMax(at)]
                ELSE entries[i]]

RECURSIVE AllEntries(_)
\* The entries of a forest at every depth: _create_toc_items makes a title
\* button for each, the children's once their section is expanded.
AllEntries(forest) ==
    IF forest = <<>> THEN {}
    ELSE {[Head(forest) EXCEPT !.children = <<>>]}
         \cup AllEntries(Head(forest).children) \cup AllEntries(Tail(forest))

(***************************************************************************)
(* The books of the library the reader is opened on, as ebooklib and       *)
(* PyMuPDF deliver them: for an EPUB, whether read_epub succeeds, the      *)
(* blocks its documents yield and its native navigation (book.toc); for a  *)
(* PDF, whether fitz.open succeeds and its page count (at least one page:  *)
(* the document object is then true in `if self.pdf_doc`).                 *)
(***************************************************************************)

\* A text of n narrow letters.
Word(n) == [i \in 1..n |-> "a"]

\* A text of n wide letters.
Wide(n) == [i \in 1..n |-> "W"]

Paragraph19 == Word(4) \o <<" ">> \o Word(4) \o <<" ">> \o Word(4) \o <<" ">> \o Word(4)

NovelContent ==
    << TextBlock(<<"A">>, TRUE, 1, <<>>),
       TextBlock(Paragraph19, FALSE, 0, <<>>),
       ImageBlock("cover.png"),
       TextBlock(<<"B">>, TRUE, 2, <<>>),
       TextBlock(<<"a", "a", " ", "a">>, FALSE, 0, <<>>),
       LinkBlock(<<"L">>, "http://x") >>

GuideContent ==
    << TextBlock(<<"C">>, TRUE, 1, <<>>),
       TextBlock(<<"D">>, TRUE, 2, <<>>) >>

\* The navigation of the guide: a section for its chapter and links to parts
\* that no header of the content names.
GuideToc ==
    << [kind |-> "section", title |-> <<"C">>,
        children |-> << [kind |-> "link", title |-> <<" ", "D">>] >>],
       [kind |-> "link", title |-> <<"Y">>],
       [kind |-> "link", title |-> <<"Z">>],
       [kind |-> "link", title |-> <<"V">>] >>

\* The page count of the long PDF.
AtlasPages == 12

Books ==
    [novel  |-> [file_type |-> "epub", readable |-> TRUE, content |-> NovelContent,
                 toc |-> <<>>, page_count |-> 0],
     guide  |-> [file_type |-> "epub", readable |-> TRUE, content |-> GuideContent,
                 toc |-> GuideToc, page_count |-> 0],
     blank  |-> [file_type |-> "epub", readable |-> TRUE, content |-> <<>>,
                 toc |-> <<>>, page_count |-> 0],
     broken |-> [file_type |-> "epub", readable |-> FALSE, content |-> <<>>,
                 toc |-> <<>>, page_count |-> 0],
     manual |-> [file_type |-> "pdf", readable |-> TRUE, content |-> <<>>,
                 toc |-> <<>>, page_count |-> 3],
     scan   |-> [file_type |-> "pdf", readable |-> FALSE, content |-> <<>>,
                 toc |-> <<>>, page_count |-> 0],
     atlas  |-> [file_type |-> "pdf", readable |-> TRUE, content |-> <<>>,
                 toc |-> <<>>, page_count |-> AtlasPages]]

\* The library Spec opens books of.
BookIds == DOMAIN Books \ {"atlas"}

\* The library PdfSpec opens books of.
PdfBookIds == {"atlas", "manual", "scan"}

\* self.book_data = None
NoBook == "none"

\* self.pdf_doc = None
NoDoc == [handle |-> 0, name |-> NoBook, page_count |-> 0]

\* <<winfo_width, winfo_height>> of the reader frame: the window as app.py
\* opens it (1200x800), at its minimum size (900x600), and two sizes below
\* the minimum, which is only a hint to the window manager: one where a page
\* holds a few short lines and one where no line fits.
WindowSizes == {<<1200, 800>>, <<900, 600>>, <<330, 310>>, <<240, 200>>}

\* The sizes the paginator alone is run on: those, one where wrap_width is 0,
\* one where it is negative, and one where a page holds one character.
PagWindowSizes == WindowSizes \cup {<<230, 400>>, <<200, 800>>, <<250, 260>>}

\* The sizes _decrease_font and _increase_font move between.
FontSizes == {n \in 14..26 : n % 2 = 0}

\* The page _load_epub builds when loading raised.
ErrorText == <<"E", "r", "r", "o", "r", "\n">>

ErrorPages == << << [type |-> "text", text |-> ErrorText] >> >>

\* The delay of the resize job, self.after(200, ...).
after_delay == 200

\* The largest stored spread position a book is opened with.
MaxStoredSpread == 1

\* The number of pages after which the step-wise paginator is stopped.
MaxPages == 6

VARIABLES
    view,               \* what app.py shows: "library" or "reader"
    book_data,          \* the id of the book of load_book, NoBook before
    file_type,
    current_page,       \* the current spread
    total_pages,
    pages,
    pages_kind,         \* "blocks": pages of content blocks; "native": PDF page indices
    pdf_doc,            \* [handle, name, page_count] of the fitz document, or NoDoc
    font_size,
    structured_content,
    toc_entries,
    win,                \* <<winfo_width, winfo_height>>
    resize_job,         \* self._resize_job: the id of the last job, 0 before the first
    timers,             \* the pending `after` jobs: [id, left], left in ms
    open_handles,       \* the handles of the documents fitz holds open
    hung,               \* a handler never returned
    progress,           \* the last call of database.update_reading_progress
    elapsed,            \* ms since the last resize event that scheduled a job
    runs,               \* runs of _perform_resize_update since that event
    burst,              \* resize events of the current burst (2: two or more)
    pdf_page_cache,     \* self._pdf_page_cache: its entries [key, photo], in
                        \* insertion order
                        \* (font_cache is declared with the font metrics)
    epub_file,          \* what epub.read_epub gives for the file of the book
    earlier,            \* a run of the paginator remembered: what it was
                        \* given, what it gave, and what was run since
                        \* ("other": another font size; "again": after
                        \* that, what it was given once more)
    pag                 \* the step-wise run of _repaginate_epub: [st, i, pc]

vars ==
    <<view, book_data, file_type, current_page, total_pages, pages, pages_kind,
      pdf_doc, font_size, structured_content, toc_entries, win, resize_job,
      timers, open_handles, hung, progress, elapsed, runs, burst,
      pdf_page_cache, font_cache, earlier, epub_file, pag>>

PagIdle == [st |-> PagStart, i |-> 0, pc |-> "idle"]

\* No run is remembered.
NoRun == [content |-> <<>>, win |-> <<0, 0>>, font_size |-> 0,
          outcome |-> "none", pages |-> <<>>, since |-> "none"]

\* No EPUB file has been read: no items, no elements.
NoFile == [items |-> <<>>, elements |-> <<>>]

NoProgress == [book |-> NoBook, current_page |-> 0, total_pages |-> 0]

\* ReaderPage.__init__, in the window app.py creates.
Init ==
    /\ view = "library"
    /\ book_data = NoBook
    /\ file_type = ""
    /\ current_page = 0
    /\ total_pages = 0
    /\ pages = <<>>
    /\ pages_kind = "blocks"
    /\ pdf_doc = NoDoc
    /\ font_size = 18
    /\ structured_content = <<>>
    /\ toc_entries = <<>>
    /\ win = <<1200, 800>>
    /\ resize_job = 0
    /\ timers = {}
    /\ open_handles = {}
    /\ hung = FALSE
    /\ progress = NoProgress
    /\ elapsed = after_delay + 100
    /\ runs = 0
    /\ burst = 0
    /\ pdf_page_cache = <<>>
    /\ font_cache = {}
    /\ earlier = NoRun
    /\ epub_file = NoFile
    /\ pag = PagIdle

(***************************************************************************)
(* The handlers.                                                           *)
(***************************************************************************)

\* A progress update that carries the spread index itself.
save_progress_spread(book, ftype, spread, total, doc) ==
    [book |-> book, current_page |-> spread,
     total_pages |-> IF ftype = "epub" THEN total
                     ELSE IF doc # NoDoc THEN doc.page_count ELSE 0]

\* _save_progress: the arguments of database.update_reading_progress.
save_progress(book, ftype, spread, total, doc) ==
    [book |-> book, current_page |-> spread * 2,
     total_pages |-> IF ftype = "epub" THEN total
                     ELSE IF doc # NoDoc THEN doc.page_count ELSE 0]

\* _load_epub: what it leaves in the session, for a file that can be read or
\* not, the content lines 433-531 take from it and its native navigation.
load_epub_file(readable, content, native_toc) ==
    LET toc == extract_toc_from_epub(native_toc, content)
        r == repaginate_epub(content, pages, total_pages, win, font_size)
        failed == [structured_content |-> IF readable THEN content
                                          ELSE structured_content,
                   toc_entries |-> IF readable THEN toc ELSE toc_entries,
                   pages |-> ErrorPages, pages_kind |-> "blocks",
                   total_pages |-> 1, hung |-> FALSE]
    IN  IF ~readable THEN failed
        ELSE IF r.outcome = "raised" THEN failed
        ELSE IF r.outcome = "hang"
            THEN [structured_content |-> content, toc_entries |-> toc,
                  pages |-> r.pages, pages_kind |-> "blocks",
                  total_pages |-> total_pages, hung |-> TRUE]
        ELSE IF r.outcome = "skipped"
            THEN IF toc # <<>> /\ pages # <<>> /\ pages_kind = "native"
                     \* _update_toc_page_indices iterates over an int: TypeError
                     THEN failed
                     ELSE [structured_content |-> content,
                           toc_entries |-> IF pages_kind = "native" THEN toc
                                           ELSE update_toc_page_indices(toc, pages),
                           pages |-> pages, pages_kind |-> pages_kind,
                           total_pages |-> total_pages, hung |-> FALSE]
        ELSE [structured_content |-> content,
              toc_entries |-> update_toc_page_indices(toc, r.pages),
              pages |-> r.pages, pages_kind |-> "blocks",
              total_pages |-> r.total_pages, hung |-> FALSE]

\* _load_epub of a book of the catalog.
load_epub(b) == load_epub_file(Books[b].readable, Books[b].content, Books[b].toc)

\* A close that releases nothing.
close_doc_never(handles, doc) == handles

\* if self.pdf_doc: self.pdf_doc.close()
close_doc(handles, doc) == IF doc # NoDoc THEN handles \ {doc.handle} ELSE handles

\* The handle fitz.open returns: one that names no other document.
NewHandle ==
    SetMin({n \in 1..(Cardinality(open_handles) + 2) :
                n \notin open_handles /\ n # pdf_doc.handle})

\* load_book(book_data) for an EPUB, from the library or the home page.
load_book_epub(b, stored) ==
    /\ view = "library" /\ ~hung
    /\ Books[b].file_type = "epub"
    /\ \E s \in {load_epub(b)} :
        /\ structured_content' = s.structured_content
        /\ toc_entries' = s.toc_entries
        /\ pages' = s.pages
        /\ pages_kind' = s.pages_kind
        /\ total_pages' = s.total_pages
        /\ hung' = s.hung
        /\ progress' = IF s.hung THEN progress
                       ELSE save_progress(b, "epub", stored, s.total_pages, pdf_doc)
    /\ view' = "reader"
    /\ book_data' = b
    /\ file_type' = "epub"
    /\ current_page' = stored
    /\ UNCHANGED <<pdf_doc, font_size, win, resize_job, timers, open_handles,
                   elapsed, runs, burst, pag>>

\* load_book(book_data) for a PDF: _load_pdf closes the document it holds and
\* opens the new one.
load_book_pdf(b, stored) ==
    /\ view = "library" /\ ~hung
    /\ Books[b].file_type = "pdf"
    /\ LET closed == close_doc(open_handles, pdf_doc)
       IN  IF Books[b].readable
               THEN /\ pdf_doc' = [handle |-> NewHandle, name |-> b,
                                   page_count |-> Books[b].page_count]
                    /\ open_handles' = closed \cup {NewHandle}
                    /\ total_pages' = Books[b].page_count
                    /\ pages' = [i \in 1..Books[b].page_count |-> i - 1]
                    /\ pages_kind' = "native"
               ELSE /\ pdf_doc' = pdf_doc
                    /\ open_handles' = closed
                    /\ total_pages' = 0
                    /\ pages' = <<>>
                    /\ pages_kind' = "blocks"
    /\ view' = "reader"
    /\ book_data' = b
    /\ file_type' = "pdf"
    /\ current_page' = stored
    /\ progress' = save_progress(b, "pdf", stored, total_pages', pdf_doc')
    /\ UNCHANGED <<font_size, structured_content, toc_entries, win, resize_job,
                   timers, hung, elapsed, runs, burst, pag>>

\* A back that closes the document and keeps the reference to it.
on_back_keeps_doc ==
    /\ view = "reader" /\ ~hung
    /\ view' = "library"
    /\ open_handles' = close_doc(open_handles, pdf_doc)
    /\ UNCHANGED <<book_data, file_type, current_page, total_pages, pages,
                   pages_kind, pdf_doc, font_size, structured_content,
                   toc_entries, win, resize_job, timers, hung, progress,
                   elapsed, runs, burst, pag>>

\* _on_back, then app.py's _close_reader.
on_back ==
    /\ view = "reader" /\ ~hung
    /\ view' = "library"
    /\ open_handles' = close_doc(open_handles, pdf_doc)
    /\ pdf_doc' = NoDoc
    /\ UNCHANGED <<book_data, file_type, current_page, total_pages, pages,
                   pages_kind, font_size, structured_content, toc_entries, win,
                   resize_job, timers, hung, progress, elapsed, runs, burst, pag>>

\* The id Tk gives a new `after` job: one that no pending job has. (Tk never
\* gives an id twice; an id is free again here once no job and no reference
\* holds it, which renames ids and nothing else.)
NewJob(pending) ==
    SetMin({n \in 1..(Cardinality(pending) + 1) : \A t \in pending : t.id # n})

\* A cancel that leaves the job pending.
after_cancel_none(pending, job) == pending

\* self.after_cancel(self._resize_job)
after_cancel(pending, job) == {t \in pending : t.id # job}

\* _on_resize: a <Configure> event of the reader frame, at window size w.
on_resize(w) ==
    /\ view = "reader" /\ ~hung
    /\ win' = w
    /\ IF book_data # NoBook /\ file_type = "epub"
           THEN \E kept \in {after_cancel(timers, resize_job)} :
                    /\ timers' = kept \cup {[id |-> NewJob(kept), left |-> after_delay]}
                    /\ resize_job' = NewJob(kept)
                    /\ elapsed' = 0
                    /\ runs' = 0
                    /\ burst' = IF elapsed < after_delay THEN Min(burst + 1, 2) ELSE 1
           ELSE UNCHANGED <<timers, resize_job, elapsed, runs, burst>>
    /\ UNCHANGED <<view, book_data, file_type, current_page, total_pages, pages,
                   pages_kind, pdf_doc, font_size, structured_content,
                   toc_entries, open_handles, hung, progress, pag>>

\* 100 ms pass. A job that is due runs before more time passes.
tick ==
    /\ ~hung
    /\ \A t \in timers : t.left > 0
    /\ timers # {} \/ elapsed <= after_delay
    /\ timers' = {[t EXCEPT !.left = @ - 100] : t \in timers}
    /\ elapsed' = Min(elapsed + 100, after_delay + 100)
    /\ UNCHANGED <<view, book_data, file_type, current_page, total_pages, pages,
                   pages_kind, pdf_doc, font_size, structured_content,
                   toc_entries, win, resize_job, open_handles, hung, progress,
                   runs, burst, pag>>

\* What _repaginate_epub followed by _show_current_spread leave, for the
\* font size fs and the spread the caller shows.
repaginate_and_show(fs, spread) ==
    \E r \in {repaginate_epub(structured_content, pages, total_pages, win, fs)} :
        /\ pages' = r.pages
        /\ pages_kind' = IF r.outcome = "skipped" THEN pages_kind ELSE "blocks"
        /\ total_pages' = r.total_pages
        /\ hung' = (r.outcome = "hang")
        /\ current_page' = IF r.outcome \in {"ok", "skipped"} THEN spread
                           ELSE current_page
        /\ progress' = IF r.outcome \in {"ok", "skipped"} /\ book_data # NoBook
                           THEN save_progress(book_data, file_type, spread,
                                              r.total_pages, pdf_doc)
                           ELSE progress

\* _perform_resize_update: the resize job, when its 200 ms are over.
perform_resize_update ==
    /\ ~hung
    /\ \E t \in timers :
        /\ t.left = 0
        /\ timers' = timers \ {t}
    /\ repaginate_and_show(font_size, current_page)
    /\ runs' = Min(runs + 1, 2)
    /\ UNCHANGED <<view, book_data, file_type, pdf_doc, font_size,
                   structured_content, toc_entries, win, resize_job,
                   open_handles, elapsed, burst, pag>>

\* A font update that stays at the spread shown.
update_font_in_place(fs) ==
    /\ font_size' = fs
    /\ IF file_type = "epub"
           THEN repaginate_and_show(fs, current_page)
           ELSE UNCHANGED <<pages, pages_kind, total_pages, hung, current_page,
                            progress>>
    /\ UNCHANGED <<view, book_data, file_type, pdf_doc, structured_content,
                   toc_entries, win, resize_job, timers, open_handles, elapsed,
                   runs, burst, pag>>

\* _update_font, after the font size became fs.
update_font(fs) ==
    /\ font_size' = fs
    /\ IF file_type = "epub"
           THEN repaginate_and_show(fs, 0)
           ELSE UNCHANGED <<pages, pages_kind, total_pages, hung, current_page,
                            progress>>
    /\ UNCHANGED <<view, book_data, file_type, pdf_doc, structured_content,
                   toc_entries, win, resize_job, timers, open_handles, elapsed,
                   runs, burst, pag>>

\* _decrease_font
decrease_font ==
    /\ view = "reader" /\ ~hung
    /\ font_size > 14
    /\ update_font(font_size - 2)

\* _increase_font
increase_font ==
    /\ view = "reader" /\ ~hung
    /\ font_size < 26
    /\ update_font(font_size + 2)

\* Lines 948-951: the last spread.
max_spread ==
    IF file_type = "epub" THEN (Len(pages) + 1) \div 2 - 1
    ELSE (total_pages + 1) \div 2 - 1

\* _show_current_spread after the spread became `spread`.
show_spread(spread) ==
    /\ current_page' = spread
    /\ progress' = IF book_data # NoBook
                       THEN save_progress(book_data, file_type, spread,
                                          total_pages, pdf_doc)
                       ELSE progress
    /\ UNCHANGED <<view, book_data, file_type, total_pages, pages_kind, pages,
                   pdf_doc, font_size, structured_content, toc_entries, win,
                   resize_job, timers, open_handles, hung, elapsed, runs, burst, pag>>

\* _prev_page
prev_page ==
    /\ view = "reader" /\ ~hung
    /\ current_page > 0
    /\ show_spread(current_page - 1)

\* _next_page
next_page ==
    /\ view = "reader" /\ ~hung
    /\ current_page < max_spread
    /\ show_spread(current_page + 1)

\* The values the slider reports: from_ 0, to 100, 100 steps.
SliderValues == {0, 25, 50, 75, 99, 100}

\* _on_slider_change(value)
on_slider_change(value) ==
    /\ view = "reader" /\ ~hung
    /\ LET total_spreads == max_spread + 1
           new_spread == IF total_spreads > 1
                             THEN TruncDiv(value * (total_spreads - 1), 100)
                             ELSE 0
       IN  /\ new_spread # current_page
           /\ show_spread(new_spread)

\* The page indices the title buttons of the contents panel carry:
\* entry.get('page_index', 0) of the entries _populate_toc was given.
TocTargets == {e.page_index : e \in AllEntries(toc_entries)}

\* A chapter spread that is not held to the last spread.
chapter_spread_unclamped(page_index) == page_index \div 2

\* The spread _navigate_to_chapter goes to.
chapter_spread(page_index) == Min(page_index \div 2, Max(0, max_spread))

\* _navigate_to_chapter(page_index), from a title button of the panel.
navigate_to_chapter(page_index) ==
    /\ view = "reader" /\ ~hung
    /\ show_spread(chapter_spread(page_index))

StoredPages == {2 * k : k \in 0..MaxStoredSpread}

\* The reader without its caches. Only _render_pdf_page reads the render
\* cache, and nothing but the image shown depends on it, so Spec leaves
\* pdf_page_cache as it is; PdfSpec below follows it. Spec measures with the
\* fonts an empty font cache gives; PagSpec and FontSpec below follow
\* font_cache.
Next ==
    \/ /\ \E b \in BookIds, stored \in StoredPages : load_book_epub(b, stored)
       /\ UNCHANGED <<pdf_page_cache, font_cache, earlier, epub_file>>
    \/ /\ \E b \in BookIds, stored \in StoredPages : load_book_pdf(b, stored)
       /\ UNCHANGED <<pdf_page_cache, font_cache, earlier, epub_file>>
    \/ on_back /\ UNCHANGED <<pdf_page_cache, font_cache, earlier, epub_file>>
    \/ /\ \E w \in WindowSizes : on_resize(w)
       /\ UNCHANGED <<pdf_page_cache, font_cache, earlier, epub_file>>
    \/ tick /\ UNCHANGED <<pdf_page_cache, font_cache, earlier, epub_file>>
    \/ perform_resize_update /\ UNCHANGED <<pdf_page_cache, font_cache, earlier, epub_file>>
    \/ decrease_font /\ UNCHANGED <<pdf_page_cache, font_cache, earlier, epub_file>>
    \/ increase_font /\ UNCHANGED <<pdf_page_cache, font_cache, earlier, epub_file>>
    \/ prev_page /\ UNCHANGED <<pdf_page_cache, font_cache, earlier, epub_file>>
    \/ next_page /\ UNCHANGED <<pdf_page_cache, font_cache, earlier, epub_file>>
    \/ /\ \E value \in SliderValues : on_slider_change(value)
       /\ UNCHANGED <<pdf_page_cache, font_cache, earlier, epub_file>>
    \/ /\ \E page_index \in TocTargets : navigate_to_chapter(page_index)
       /\ UNCHANGED <<pdf_page_cache, font_cache, earlier, epub_file>>

Spec == Init /\ [][Next]_vars

(***************************************************************************)
(* _repaginate_epub alone, one loop iteration per step, on every content,  *)
(* window size and font size of the catalog, in a reader that has shown no *)
(* book before.                                                            *)
(***************************************************************************)

\* A short paragraph followed by one of wide letters.
ShortThenWide ==
    << TextBlock(<<"a">>, FALSE, 0, <<>>), TextBlock(Wide(7), FALSE, 0, <<>>) >>

PagContents == {Books[b].content : b \in BookIds} \cup {ShortThenWide}

PagInit ==
    /\ view = "reader"
    /\ book_data = NoBook
    /\ file_type = "epub"
    /\ current_page = 0
    /\ total_pages = 0
    /\ pages = <<>>
    /\ pages_kind = "blocks"
    /\ pdf_doc = NoDoc
    /\ font_size \in FontSizes
    /\ structured_content \in PagContents
    /\ toc_entries = <<>>
    /\ win \in PagWindowSizes
    /\ resize_job = 0
    /\ timers = {}
    /\ open_handles = {}
    /\ hung = FALSE
    /\ progress = NoProgress
    /\ elapsed = after_delay + 100
    /\ runs = 0
    /\ burst = 0
    /\ pdf_page_cache = <<>>
    /\ font_cache = {}
    /\ earlier = NoRun
    /\ epub_file = NoFile
    /\ pag = [st |-> PagStart, i |-> 0, pc |-> "begin"]

\* What a step of the paginator leaves alone.
PagFrame ==
    UNCHANGED <<view, book_data, file_type, current_page, pages_kind, pdf_doc,
                font_size, structured_content, toc_entries, win, resize_job,
                timers, open_handles, hung, progress, elapsed, runs, burst,
                pdf_page_cache, earlier, epub_file>>

\* Lines 586-600: the early return, or the reset of self.pages.
pag_begin ==
    /\ pag.pc = "begin"
    /\ IF structured_content = <<>>
           THEN /\ pag' = [pag EXCEPT !.pc = "returned"]
                /\ UNCHANGED <<pages, total_pages>>
           ELSE /\ pag' = [st |-> PagStart, i |-> 1, pc |-> "loop"]
                /\ pages' = <<>>
                /\ UNCHANGED total_pages
    /\ UNCHANGED <<font_cache, earlier, epub_file>>
    /\ PagFrame

\* Lines 602-629: the next item of structured_content.
pag_item ==
    /\ pag.pc = "loop" /\ pag.st.at = "items"
    /\ pag.i <= Len(structured_content)
    /\ pag' = [pag EXCEPT !.st = place_item(pag.st, structured_content[pag.i],
                                            font_size, wrap_width(win),
                                            available_height(win)),
                          !.i = @ + 1]
    /\ pages' = pag'.st.pages
    /\ font_cache' = IF structured_content[pag.i].type = "text"
                         THEN cache_font(font_cache, font_size,
                                         structured_content[pag.i].is_header)
                         ELSE font_cache
    /\ UNCHANGED total_pages
    /\ PagFrame

\* Lines 631-678: one iteration of the splitting loop.
pag_split ==
    /\ pag.pc = "loop" /\ pag.st.at = "split"
    /\ Len(pag.st.pages) < MaxPages
    /\ pag' = [pag EXCEPT !.st = split_iteration(pag.st, font_size, wrap_width(win),
                                                 available_height(win))]
    /\ pages' = pag'.st.pages
    /\ UNCHANGED total_pages
    /\ UNCHANGED <<font_cache, earlier, epub_file>>
    /\ PagFrame

\* ZeroDivisionError leaves _repaginate_epub.
pag_raise ==
    /\ pag.pc = "loop" /\ pag.st.at = "raised"
    /\ pag' = [pag EXCEPT !.pc = "raised"]
    /\ UNCHANGED <<pages, total_pages>>
    /\ UNCHANGED <<font_cache, earlier, epub_file>>
    /\ PagFrame

\* Lines 680-685: the final page and total_pages.
pag_final ==
    /\ pag.pc = "loop" /\ pag.st.at = "items"
    /\ pag.i > Len(structured_content)
    /\ pages' = final_pages(pag.st)
    /\ total_pages' = IF pages' = <<>> THEN 1 ELSE Len(pages')
    /\ pag' = [pag EXCEPT !.pc = "returned"]
    /\ UNCHANGED <<font_cache, earlier, epub_file>>
    /\ PagFrame

PagNext == pag_begin \/ pag_item \/ pag_split \/ pag_raise \/ pag_final

PagSpec == PagInit /\ [][PagNext]_vars

(***************************************************************************)
(* The reader on PDFs, with its render cache: the handlers above together  *)
(* with the renders of the _show_current_spread they end with.             *)
(***************************************************************************)

\* The window sizes of PdfSpec: as opened, and at the minimum size.
PdfWindowSizes == {<<1200, 800>>, <<900, 600>>}

\* What the handlers of PdfSpec leave of the cache: _show_current_spread
\* renders the spread the handler ends on.
ShowsSpread == pdf_page_cache' = show_pdf_spread(pdf_page_cache, pdf_doc', current_page', win')

\* load_book of a PDF: _load_pdf clears the cache, then the spread is shown.
pdf_load_book ==
    /\ \E b \in PdfBookIds, stored \in StoredPages : load_book_pdf(b, stored)
    /\ pdf_page_cache' = show_pdf_spread(clear_cache(pdf_page_cache), pdf_doc',
                                         current_page', win')
    /\ UNCHANGED <<font_cache, earlier, epub_file>>

pdf_on_back == on_back /\ UNCHANGED <<pdf_page_cache, font_cache, earlier, epub_file>>

\* A resize with a PDF open renders nothing. (In PdfSpec the window is only
\* ever made smaller.)
pdf_on_resize ==
    /\ \E w \in PdfWindowSizes : w[1] < win[1] /\ on_resize(w)
    /\ UNCHANGED <<pdf_page_cache, font_cache, earlier, epub_file>>

pdf_prev_page == prev_page /\ ShowsSpread /\ UNCHANGED <<font_cache, earlier, epub_file>>

pdf_next_page == next_page /\ ShowsSpread /\ UNCHANGED <<font_cache, earlier, epub_file>>

PdfNext ==
    \/ pdf_load_book
    \/ pdf_on_back
    \/ pdf_on_resize
    \/ pdf_prev_page
    \/ pdf_next_page

PdfSpec == Init /\ [][PdfNext]_vars

(***************************************************************************)
(* Properties of the paginator, stated on PagSpec.                         *)
(***************************************************************************)

\* C1: every iteration of the splitting loop either flushes a non-empty page
\* or consumes at least one character of the remaining text (so that the loop
\* terminates on every content, page size and font size).
C1_SplitLoopProgress ==
    [][(pag.pc = "loop" /\ pag.st.at = "split" /\ pag' # pag) =>
          \/ /\ Len(pag'.st.pages) = Len(pag.st.pages) + 1
             /\ pag'.st.pages[Len(pag'.st.pages)] # <<>>
          \/ Len(pag'.st.rem) < Len(pag.st.rem)]_vars

RECURSIVE Flatten(_)
\* The blocks of all pages, in page order.
Flatten(pgs) == IF pgs = <<>> THEN <<>> ELSE Head(pgs) \o Flatten(Tail(pgs))

RECURSIVE Letters(_, _)
\* The characters of a text other than whitespace, each with the header flag
\* of its block.
Letters(text, is_header) ==
    IF text = <<>> THEN <<>>
    ELSE (IF Head(text) \in Whitespace THEN <<>>
          ELSE << <<"char", Head(text), is_header>> >>)
         \o Letters(Tail(text), is_header)

RECURSIVE Stream(_)
\* A block sequence with the chunks of split paragraphs rejoined: the letters
\* of the text blocks, the images and the links, in order.
Stream(blocks) ==
    IF blocks = <<>> THEN <<>>
    ELSE LET b == Head(blocks)
         IN  (IF b.type = "text" THEN Letters(b.text, b.is_header)
              ELSE IF b.type = "image" THEN << <<"image", b.image>> >>
              ELSE << <<"link", b.url>> >>)
             \o Stream(Tail(blocks))

\* C2: when the paginator has returned, the blocks of its pages in page order,
\* chunks rejoined, are the content in order: every letter, image and link
\* once, none dropped or duplicated.
C2_Coverage ==
    (pag.pc = "returned" /\ structured_content # <<>>) =>
        Stream(Flatten(pages)) = Stream(structured_content)

\* The measured height of a block on a page, as the paginator adds it up.
BlockHeight(b, fs, wrap) ==
    IF b.type = "image" THEN img_h
    ELSE measure_text_height(b.text, fs, wrap, b.is_header) + p_spacing

RECURSIVE PageHeight(_, _, _)
PageHeight(page, fs, wrap) ==
    IF page = <<>> THEN 0
    ELSE BlockHeight(Head(page), fs, wrap) + PageHeight(Tail(page), fs, wrap)

\* C4: when the paginator has returned, every page of more than one block is
\* at most available_height high (370 per image, the measured height plus 10
\* per text block).
C4_HeightBound ==
    (pag.pc = "returned" /\ structured_content # <<>>) =>
        \A k \in 1..Len(pages) :
            Len(pages[k]) > 1 =>
                PageHeight(pages[k], font_size, wrap_width(win)) <= available_height(win)

(***************************************************************************)
(* Properties of the reader, stated on Spec.                               *)
(***************************************************************************)

\* A step in which _repaginate_epub ran (and returned) for an EPUB.
RepaginatedEpub ==
    /\ \/ \E b \in BookIds, stored \in StoredPages :
              load_book_epub(b, stored) /\ Books[b].readable
       \/ perform_resize_update /\ file_type = "epub"
       \/ (decrease_font \/ increase_font) /\ file_type = "epub"
    /\ ~hung'

\* C3: after _repaginate_epub ran, on any content, empty content included,
\* total_pages is at least 1 and is max(1, number of pages), the pages being
\* those of the content.
C3_AtLeastOnePage ==
    [][RepaginatedEpub =>
          /\ total_pages' >= 1
          /\ pages_kind' = "blocks"
          /\ total_pages' = Max(1, Len(pages'))
          /\ (structured_content' = <<>> => pages' = <<>>)]_vars

\* An entry whose trimmed title is the text of a header on some page points
\* to a page that holds that header.
PointsToHeader(e, pgs) ==
    HeaderPages(pgs, Strip(e.title)) # {} =>
        e.page_index \in HeaderPages(pgs, Strip(e.title))

\* C5: after an EPUB is loaded and paginated, every TOC entry, of any depth,
\* whose trimmed title is the text of a header block has the page index of a
\* page that holds that header.
C5_TocIndicesAfterLoad ==
    [][\A b \in BookIds, stored \in StoredPages :
          (/\ load_book_epub(b, stored)
           /\ Books[b].readable /\ Books[b].content # <<>>
           /\ ~hung' /\ pages' # ErrorPages) =>
              \A e \in AllEntries(toc_entries') : PointsToHeader(e, pages')]_vars

\* C6: after a repagination of a loaded EPUB by a font-size change or by the
\* resize job, each entry of the TOC list whose title matches a header points
\* to a page that holds that header in the new pages. (Stated for the entries
\* of self.toc_entries itself, the ones the load does correct.)
C6_TocIndicesAfterRepagination ==
    [][(/\ perform_resize_update \/ decrease_font \/ increase_font
        /\ file_type = "epub" /\ book_data \in BookIds
        /\ Books[book_data].readable /\ structured_content # <<>>
        /\ ~hung' /\ pages_kind' = "blocks") =>
           \A i \in 1..Len(toc_entries') : PointsToHeader(toc_entries'[i], pages')]_vars

\* C7: at most one resize job is pending; a burst of resize events, each
\* less than 200 ms after the one before, is followed by exactly one run of
\* the resize job, 200 ms after the last event and not before.
C7_Debounce ==
    /\ Cardinality(timers) <= 1
    /\ runs <= 1
    /\ (runs = 1 => elapsed >= after_delay /\ timers = {})
    /\ (burst >= 1 /\ elapsed > after_delay => runs = 1)

\* A burst of two or more events has had its one run.
C7_Witness ==
    /\ file_type = "epub" /\ view = "reader"
    /\ burst = 2 /\ runs = 1 /\ timers = {} /\ elapsed > after_delay

\* C8: while the book of the session is an EPUB that could not be opened,
\* the session holds the one error page and total_pages = 1, also after font
\* changes and resize repaginations.
C8_ErrorPageStays ==
    (/\ book_data \in BookIds /\ ~hung
     /\ Books[book_data].file_type = "epub" /\ ~Books[book_data].readable) =>
        /\ pages_kind = "blocks"
        /\ total_pages = 1
        /\ pages = ErrorPages

\* C9: loading an EPUB whose extraction yields no content block leaves the
\* one error page and total_pages = 1, whatever was loaded before.
C9_NoContentIsError ==
    [][\A b \in BookIds, stored \in StoredPages :
          (/\ load_book_epub(b, stored)
           /\ Books[b].readable /\ Books[b].content = <<>>) =>
              /\ pages_kind' = "blocks"
              /\ total_pages' = 1
              /\ pages' = ErrorPages]_vars

C11_CacheBound == Len(pdf_page_cache) <= cache_limit

(***************************************************************************)
(* Properties of navigation and of repagination, stated on Spec.           *)
(***************************************************************************)

\* C12: after a resize-only repagination of an EPUB shown at a valid spread,
\* the current spread is min(previous spread, new max_spread).
C12_ResizeReclamps ==
    [][(/\ perform_resize_update
        /\ file_type = "epub" /\ structured_content # <<>> /\ ~hung'
        /\ pages_kind = "blocks" /\ current_page <= Max(0, max_spread)) =>
           current_page' = Min(current_page, Max(0, max_spread'))]_vars

\* A step of one of the navigation handlers.
NavStep ==
    \/ prev_page
    \/ next_page
    \/ \E value \in SliderValues : on_slider_change(value)
    \/ \E page_index \in TocTargets : navigate_to_chapter(page_index)

\* The spread is within 0..max_spread, max_spread being
\* ceil(total_pages / 2) - 1 floored at 0.
SpreadInRange ==
    /\ 0 <= current_page
    /\ current_page <= Max(0, (total_pages + 1) \div 2 - 1)

\* C13: on a loaded book shown at a spread in range, a step of _next_page,
\* _prev_page, _on_slider_change or _navigate_to_chapter leaves the spread in
\* range; _prev_page takes no step at spread 0 and _next_page none at
\* max_spread.
C13_NavigationInRange ==
    [][/\ (NavStep /\ book_data # NoBook /\ SpreadInRange) => SpreadInRange'
       /\ (current_page = 0 => ~prev_page)
       /\ (current_page = Max(0, (total_pages + 1) \div 2 - 1) => ~next_page)]_vars

\* A book is shown at its last spread, the second, which only a navigation
\* handler leads to (a book opens at an even stored position, a font change
\* shows spread 0), and the contents panel names a chapter beyond it.
C13_Witness ==
    /\ view = "reader" /\ book_data # NoBook
    /\ current_page = 1
    /\ current_page = (total_pages + 1) \div 2 - 1
    /\ \E page_index \in TocTargets : page_index \div 2 > current_page

\* The number of pages of the book shown: of the page list of an EPUB, of
\* the document of a PDF (none when it could not be opened).
BookPageCount ==
    IF file_type = "epub" THEN Len(pages)
    ELSE IF Books[book_data].readable THEN Books[book_data].page_count ELSE 0

FontContents == {Books[b].content : b \in {"novel", "guide", "blank"}}

FontWindowSizes == {<<1200, 800>>, <<330, 310>>, <<240, 200>>}

FontSpecSizes == {16, 18, 20}

\* The font cache after the for loop over content has asked for the font of
\* each of its text blocks: a font is made for the first block that asks
\* under a key the cache does not hold.
run_fonts(cache, content, fs) ==
    LET asked == {i \in DOMAIN content : content[i].type = "text"}
        key_of(i) == font_key(font_family, fs, content[i].is_header)
        made == {i \in asked :
                    /\ ~\E e \in cache : e.key = key_of(i)
                    /\ ~\E j \in asked : j < i /\ key_of(j) = key_of(i)}
    IN  cache \cup {[key |-> key_of(i),
                     font |-> NewFont(fs, content[i].is_header)] : i \in made}

\* What a run of _repaginate_epub is given and what it gives.
this_run(content, w, fs) ==
    LET r == repaginate_epub(content, <<>>, 0, w, fs)
    IN  [content |-> content, win |-> w, font_size |-> fs,
         outcome |-> r.outcome, pages |-> r.pages, since |-> "none"]

\* _repaginate_epub for the content, window and font size given; the run may
\* be the one that is remembered, unless it returned at once on empty content.
font_run(content, w, fs) ==
    /\ structured_content' = content
    /\ win' = w
    /\ font_size' = fs
    /\ font_cache' = run_fonts(font_cache, content, fs)
    /\ \E r \in {repaginate_epub(content, pages, total_pages, w, fs)} :
        /\ pages' = r.pages
        /\ total_pages' = r.total_pages
        /\ earlier' \in
            IF earlier = NoRun /\ content = <<>> THEN {NoRun}
            ELSE IF earlier = NoRun
                THEN {NoRun, [content |-> content, win |-> w, font_size |-> fs,
                              outcome |-> r.outcome, pages |-> r.pages,
                              since |-> "none"]}
            ELSE IF fs # earlier.font_size /\ earlier.since = "none"
                THEN {[earlier EXCEPT !.since = "other"]}
            ELSE IF <<content, w, fs>>
                        = <<earlier.content, earlier.win, earlier.font_size>>
                    /\ earlier.since = "other"
                THEN {[earlier EXCEPT !.since = "again"]}
            ELSE {earlier}
    /\ UNCHANGED <<view, book_data, file_type, current_page, pages_kind,
                   pdf_doc, toc_entries, resize_job, timers, open_handles, hung,
                   progress, elapsed, runs, burst, pdf_page_cache, epub_file,
                   pag>>

font_load == \E content \in FontContents : font_run(content, win, font_size)

font_resize == \E w \in FontWindowSizes : font_run(structured_content, w, font_size)

font_decrease ==
    /\ font_size - 2 \in FontSpecSizes
    /\ font_run(structured_content, win, font_size - 2)

font_increase ==
    /\ font_size + 2 \in FontSpecSizes
    /\ font_run(structured_content, win, font_size + 2)

FontNext == font_load \/ font_resize \/ font_decrease \/ font_increase

FontSpec == Init /\ [][FontNext]_vars

C16_FontChangeRepaginates ==
    [][((decrease_font \/ increase_font)
            /\ file_type = "epub" /\ book_data # NoBook
            /\ Books[book_data].readable /\ ~hung') =>
        LET r == repaginate_epub(Books[book_data].content, pages, total_pages,
                                 win, font_size')
        IN  /\ font_size' # font_size
            /\ pages' = r.pages
            /\ total_pages' = r.total_pages
            /\ current_page' = 0]_vars

\* A readable EPUB of several spreads is shown at spread 0 with a font size
\* other than the one the reader starts with.
C16_Witness ==
    /\ view = "reader" /\ ~hung
    /\ file_type = "epub" /\ book_data # NoBook /\ Books[book_data].readable
    /\ font_size # 18
    /\ Len(pages) >= 3 /\ current_page = 0
    /\ progress = [book |-> book_data, current_page |-> 0,
                   total_pages |-> Len(pages)]

RECURSIVE Shape(_)
\* A forest without its page indices: titles, depths and nesting.
Shape(forest) ==
    [i \in 1..Len(forest) |->
        [title |-> forest[i].title, depth |-> forest[i].depth,
         children |-> Shape(forest[i].children)]]

RECURSIVE NestedShape(_, _)
\* The shape of the forest that keeps the nesting of the navigation: one
\* entry for each node, at the depth of its nesting level, its children the
\* entries of its child nodes in order.
NestedShape(toc_items, depth) ==
    [i \in 1..Len(toc_items) |->
        [title |-> toc_items[i].title, depth |-> depth,
         children |-> IF toc_items[i].kind = "section"
                          THEN NestedShape(toc_items[i].children, depth + 1)
                          ELSE <<>>]]

\* C17: after an EPUB with native navigation has been loaded, the TOC has
\* the nesting of the navigation: the top-level entries are those of the
\* top-level nodes, and the children of an entry are the entries of the
\* child nodes of its node, in order, one level deeper.
C17_NativeNesting ==
    [][((\E b \in BookIds, stored \in StoredPages : load_book_epub(b, stored))
            /\ Books[book_data'].readable /\ Books[book_data'].toc # <<>>
            /\ ~hung') =>
        Shape(toc_entries') = NestedShape(Books[book_data'].toc, 0)]_vars

(***************************************************************************)
(* _generate_toc_from_headers on contents of a few blocks: headers of the  *)
(* four levels, headers of 79 and of 80 characters, body paragraphs.       *)
(***************************************************************************)

\* The number of blocks of the contents.
MaxHeaders == 4

\* The block at place i of a content, by its kind: 0 a body paragraph, 1..4
\* a header of that level, 5 a level-1 header of 80 characters, 6 a level-2
\* header of 79. The texts of a content differ (_load_epub takes a text
\* once): i letters, or the letter of place i before the long run.
HeaderBlock(kind, i) ==
    IF kind = 0 THEN TextBlock(Word(i), FALSE, 0, <<>>)
    ELSE IF kind = 5
        THEN TextBlock(<<(<<"b", "c", "d", "e", "f", "g">>)[i]>> \o Word(79), TRUE, 1, <<>>)
    ELSE IF kind = 6
        THEN TextBlock(<<(<<"b", "c", "d", "e", "f", "g">>)[i]>> \o Word(78), TRUE, 2, <<>>)
    ELSE TextBlock(Word(i), TRUE, kind, <<>>)

HeaderContents ==
    UNION {{[i \in 1..n |-> HeaderBlock(kinds[i], i)] : kinds \in [1..n -> 0..6]}
           : n \in 1..MaxHeaders}

\* The number of blocks of the long contents.
MaxBlocks == 10

\* Long contents: 9 blocks or more, body paragraphs but for one or two
\* level-1 headers.
LongContents ==
    UNION {{[i \in 1..n |-> HeaderBlock(IF i \in {h, k} THEN 1 ELSE 0, i)]
                : h \in 1..n, k \in 1..n}
           : n \in 9..MaxBlocks}

TocInit ==
    /\ view = "library"
    /\ book_data = NoBook
    /\ file_type = "epub"
    /\ current_page = 0
    /\ total_pages = 0
    /\ pages = <<>>
    /\ pages_kind = "blocks"
    /\ pdf_doc = NoDoc
    /\ font_size = 18
    /\ structured_content \in HeaderContents \cup LongContents
    /\ toc_entries = <<>>
    /\ win = <<1200, 800>>
    /\ resize_job = 0
    /\ timers = {}
    /\ open_handles = {}
    /\ hung = FALSE
    /\ progress = NoProgress
    /\ elapsed = after_delay + 100
    /\ runs = 0
    /\ burst = 0
    /\ pdf_page_cache = <<>>
    /\ font_cache = {}
    /\ earlier = NoRun
    /\ epub_file = NoFile
    /\ pag = PagIdle

\* The native navigation (book.toc) the contents come with: none; two
\* links; one object without a title; a tuple that is not a pair; a link
\* followed by such a tuple.
TocBooks ==
    [plain  |-> <<>>,
     linked |-> << [kind |-> "link", title |-> <<"Y">>],
                   [kind |-> "link", title |-> <<"Z">>] >>,
     void   |-> << [kind |-> "untitled"] >>,
     cut    |-> << [kind |-> "odd"] >>,
     torn   |-> << [kind |-> "link", title |-> <<"Y">>], [kind |-> "odd"] >>]

\* _extract_toc_from_epub of book b, as _load_epub calls it when the reader
\* opens.
toc_extract(b) ==
    /\ view = "library"
    /\ view' = "reader"
    /\ book_data' = b
    /\ toc_entries' = extract_toc_from_epub(TocBooks[b], structured_content)
    /\ UNCHANGED <<file_type, current_page, total_pages, pages,
                   pages_kind, pdf_doc, font_size, structured_content, win,
                   resize_job, timers, open_handles, hung, progress, elapsed,
                   runs, burst, pdf_page_cache, font_cache, earlier, epub_file, pag>>

TocNext == \E b \in DOMAIN TocBooks : toc_extract(b)

TocSpec == TocInit /\ [][TocNext]_vars

\* The headers a TOC is made of: header blocks of fewer than 80 characters.
TocHeaders(content) ==
    SelectSeq(content, LAMBDA item : item.type = "text" /\ item.is_header
                                     /\ Len(item.text) < 80)

\* The last header before place i whose level is in S (0: none).
LastOf(H, i, S) == SetMax({0} \cup {j \in 1..(i - 1) : H[j].header_level \in S})

\* The header that header i is attached to (0: top level): none for level 1;
\* for level 2 the current h1; for level 3 the current h2, else the h1; for
\* level 4 the current h3, else the h2, else the h1. A level-1 header ends
\* the current h2 and h3, a level-2 header the current h3.
ParentOf(H, i) ==
    LET h1 == LastOf(H, i, {1})
        l2 == LastOf(H, i, {1, 2})
        h2 == IF l2 > 0 /\ H[l2].header_level = 2 THEN l2 ELSE 0
        l3 == LastOf(H, i, {1, 2, 3})
        h3 == IF l3 > 0 /\ H[l3].header_level = 3 THEN l3 ELSE 0
        level == H[i].header_level
    IN  IF level = 1 THEN 0
        ELSE IF level = 2 THEN h1
        ELSE IF level = 3 THEN (IF h2 > 0 THEN h2 ELSE h1)
        ELSE (IF h3 > 0 THEN h3 ELSE IF h2 > 0 THEN h2 ELSE h1)

RECURSIVE AttachedTo(_, _, _)
\* The headers from place i on that are attached to header p, in order.
AttachedTo(H, p, i) ==
    IF i > Len(H) THEN <<>>
    ELSE (IF ParentOf(H, i) = p THEN <<i>> ELSE <<>>) \o AttachedTo(H, p, i + 1)

RECURSIVE HeaderForest(_, _)
\* The forest of the headers attached to p: titles and nesting.
HeaderForest(H, p) ==
    LET at == AttachedTo(H, p, 1)
    IN  [k \in 1..Len(at) |->
            [title |-> H[at[k]].text, children |-> HeaderForest(H, at[k])]]

RECURSIVE TitleShape(_)
\* The titles and the nesting of a forest.
TitleShape(forest) ==
    [i \in 1..Len(forest) |->
        [title |-> forest[i].title, children |-> TitleShape(forest[i].children)]]

\* C18: the TOC made from the headers (of a book without native navigation)
\* holds the headers of fewer than 80 characters, in order, each attached by
\* the rule of its level: level 1 at the top level, level 2 to the current
\* h1, level 3 to the current h2 else h1, level 4 to the current h3 else h2
\* else h1, and at the top level when none of these is open.
C18_HeaderHierarchy ==
    (view = "reader" /\ book_data = "plain") =>
        TitleShape(toc_entries) = HeaderForest(TocHeaders(structured_content), 0)

\* The example: headers of levels 1, 2, 1 give two top-level entries, the
\* first with one child, the second with none.
C18_Witness ==
    /\ view = "reader" /\ book_data = "plain"
    /\ Len(structured_content) = 3
    /\ structured_content[1].is_header /\ structured_content[1].header_level = 1
    /\ Len(structured_content[1].text) < 80
    /\ structured_content[2].is_header /\ structured_content[2].header_level = 2
    /\ structured_content[3].is_header /\ structured_content[3].header_level = 1
    /\ Len(structured_content[3].text) < 80
    /\ Len(toc_entries) = 2
    /\ Len(toc_entries[1].children) = 1
    /\ toc_entries[1].children[1].title = structured_content[2].text
    /\ toc_entries[2].children = <<>>

ThreeParagraphs ==
    << TextBlock(Word(11), FALSE, 0, <<>>),
       TextBlock(Word(3), FALSE, 0, <<>>),
       TextBlock(Word(12), FALSE, 0, <<>>) >>

WidthContents == {NovelContent, GuideContent, ThreeParagraphs}

\* The widths of the window, each giving another page width, and its heights.
WindowWidths == {w \in 250..264 : w % 2 = 0}

WindowHeights == {500, 600}

WidthInit ==
    /\ view = "reader"
    /\ book_data = NoBook
    /\ file_type = "epub"
    /\ current_page = 0
    /\ font_size = 14
    /\ font_cache = {}
    /\ structured_content \in WidthContents
    /\ win \in {<<264, height>> : height \in WindowHeights}
    /\ \E r \in {repaginate_epub(structured_content, <<>>, 0, win, font_size)} :
        /\ pages = r.pages
        /\ total_pages = r.total_pages
        /\ hung = (r.outcome = "hang")
    /\ pages_kind = "blocks"
    /\ pdf_doc = NoDoc
    /\ toc_entries = <<>>
    /\ resize_job = 0
    /\ timers = {}
    /\ open_handles = {}
    /\ progress = NoProgress
    /\ elapsed = after_delay + 100
    /\ runs = 0
    /\ burst = 0
    /\ pdf_page_cache = <<>>
    /\ earlier = NoRun
    /\ epub_file = NoFile
    /\ pag = PagIdle

\* _repaginate_epub in the window w at the font size fs.
width_run(w, fs) ==
    /\ ~hung
    /\ win' = w
    /\ font_size' = fs
    /\ \E r \in {repaginate_epub(structured_content, pages, total_pages, w, fs)} :
        /\ pages' = r.pages
        /\ total_pages' = r.total_pages
        /\ hung' = (r.outcome = "hang")
    /\ UNCHANGED <<view, book_data, file_type, current_page, pages_kind,
                   pdf_doc, structured_content, toc_entries, resize_job, timers,
                   open_handles, progress, elapsed, runs, burst, pdf_page_cache,
                   font_cache, earlier, epub_file, pag>>

\* _increase_font and the repagination of _update_font.
width_increase_font ==
    /\ font_size < 26
    /\ width_run(win, font_size + 2)

\* The window made narrower and the repagination of the resize job.
width_narrow ==
    /\ win[1] - 2 \in WindowWidths
    /\ width_run(<<win[1] - 2, win[2]>>, font_size)

WidthNext == width_increase_font \/ width_narrow

WidthSpec == WidthInit /\ [][WidthNext]_vars

\* C20: a repagination with a larger font size, or with a narrower page,
\* everything else as it was, never gives fewer pages.
C20_MonotonicPageCount ==
    [][((width_increase_font \/ width_narrow) /\ ~hung') =>
        total_pages' >= total_pages]_vars

(***************************************************************************)
(* _load_epub, lines 432-531: the content an EPUB file gives. A file is    *)
(* the items of the book in order and the elements soup.find_all meets in  *)
(* its documents; names, sources, targets and texts are sequences of       *)
(* characters.                                                             *)
(***************************************************************************)

\* s.split(sep)[-1]: what follows the last sep of s.
LastPart(s, sep) ==
    LET at == {i \in 1..Len(s) : s[i] = sep}
    IN  IF at = {} THEN s ELSE SubSeq(s, SetMax(at) + 1, Len(s))

\* Lines 473 and 478: name.split('/')[-1].split('\\')[-1]
trailing_filename(name) == LastPart(LastPart(name, "/"), "\\")

\* Python's `sub in s` for strings.
Contains(sub, s) ==
    \E k \in 0..(Len(s) - Len(sub)) : SubSeq(s, k + 1, k + Len(sub)) = sub

\* s.startswith(prefix)
StartsWith(s, prefix) ==
    Len(s) >= Len(prefix) /\ SubSeq(s, 1, Len(prefix)) = prefix

Http == <<"h", "t", "t", "p", ":", "/", "/">>

Https == <<"h", "t", "t", "p", "s", ":", "/", "/">>

\* An item of book.get_items(): its name, whether its media type or its
\* extension is an image's, and whether Image.open reads it.
Item(name, is_image, opens) == [name |-> name, is_image |-> is_image, opens |-> opens]

\* Lines 437-457: image_map, the names of the images that could be read, in
\* the order of the items (the items of a book have different names).
image_map_of(items) ==
    LET read == SelectSeq(items, LAMBDA item : item.is_image /\ item.opens)
    IN  [i \in 1..Len(read) |-> read[i].name]

\* An <a> element: its text and its href.
Anchor(text, href) == [name |-> "a", text |-> text, href |-> href]

\* A <p> or <h1>..<h6> element: the text it begins with and the <a> elements
\* inside it.
TextElement(name, lead, anchors) == [name |-> name, lead |-> lead, anchors |-> anchors]

\* An <img> or <image> element: the first of its src, xlink:href and href
\* that is not empty.
ImgElement(src) == [name |-> "img", src |-> src]

SvgElement == [name |-> "svg"]

TextNames == {"p", "h1", "h2", "h3", "h4", "h5", "h6"}

RECURSIVE JoinTexts(_)
JoinTexts(anchors) ==
    IF anchors = <<>> THEN <<>>
    ELSE Head(anchors).text \o JoinTexts(Tail(anchors))

\* element.get_text(strip=True): the strings of the element, joined.
get_text(element) ==
    IF element.name \in TextNames
        THEN element.lead \o JoinTexts(element.anchors)
        ELSE element.text

RECURSIVE find_all(_)
\* Line 466: soup.find_all meets an element, then the elements inside it.
find_all(elements) ==
    IF elements = <<>> THEN <<>>
    ELSE LET e == Head(elements)
         IN  (IF e.name \in TextNames THEN <<e>> \o e.anchors ELSE <<e>>)
                 \o find_all(Tail(elements))

NoImage == <<>>

\* Lines 476-481: the first image of image_map whose trailing filename is
\* the reference's, or whose name contains the reference's filename.
find_image(image_map, img_src) ==
    LET img_filename == trailing_filename(img_src)
        found == {i \in 1..Len(image_map) :
                     \/ img_filename = trailing_filename(image_map[i])
                     \/ Contains(img_filename, image_map[i])}
    IN  IF found = {} THEN NoImage ELSE image_map[SetMin(found)]

\* Lines 518-523: the links of a text element.
embedded_links(element) ==
    LET kept == SelectSeq(element.anchors,
                          LAMBDA link : link.href # <<>> /\ link.text # <<>>)
    IN  [i \in 1..Len(kept) |-> [text |-> kept[i].text, url |-> kept[i].href]]

\* Lines 467-531: what one element adds to structured_content and to
\* seen_texts.
load_element(st, element, image_map) ==
    IF element.name = "img"
        THEN IF element.src # <<>> /\ find_image(image_map, element.src) # NoImage
                 THEN [st EXCEPT !.content =
                          Append(@, ImageBlock(find_image(image_map, element.src)))]
                 ELSE st
    ELSE IF element.name = "svg" THEN st
    ELSE IF element.name = "a"
        THEN IF /\ element.text # <<>> /\ element.href # <<>>
                /\ (StartsWith(element.href, Http) \/ StartsWith(element.href, Https))
                /\ element.text \notin st.seen_texts
                 THEN [content |-> Append(st.content,
                                          LinkBlock(element.text, element.href)),
                       seen_texts |-> st.seen_texts \cup {element.text}]
                 ELSE st
    ELSE IF get_text(element) # <<>> /\ get_text(element) \notin st.seen_texts
        THEN [content |-> Append(st.content,
                  TextBlock(get_text(element), element.name # "p",
                            IF element.name = "p" THEN 0
                            ELSE CHOOSE n \in 1..6 :
                                     element.name = (<<"h1", "h2", "h3", "h4",
                                                       "h5", "h6">>)[n],
                            embedded_links(element))),
              seen_texts |-> st.seen_texts \cup {get_text(element)}]
        ELSE st

RECURSIVE load_elements(_, _, _)
load_elements(st, found, image_map) ==
    IF found = <<>> THEN st
    ELSE load_elements(load_element(st, Head(found), image_map), Tail(found),
                       image_map)

\* Lines 433-531: structured_content for a file.
read_content(file) ==
    load_elements([content |-> <<>>, seen_texts |-> {}], find_all(file.elements),
                  image_map_of(file.items)).content

(***************************************************************************)
(* EPUB files read: a file of a few elements is loaded from the library.   *)
(***************************************************************************)

\* The elements a document is made of at most.
MaxElements == 3

TextT == <<"T">>

SiteUrl == Https \o <<"x">>

\* Elements: a paragraph and a heading of the same text; a paragraph without
\* text; a paragraph with a link after its text; a paragraph that is a link;
\* anchors by themselves: to a site, to a place of the book, without text;
\* images with a reference that names a file, that names none, and without
\* reference; an svg.
EpubElements ==
    { TextElement("p", TextT, <<>>),
      TextElement("h2", TextT, <<>>),
      TextElement("p", <<>>, <<>>),
      TextElement("p", <<"S">>, <<Anchor(<<"U">>, SiteUrl)>>),
      TextElement("p", <<>>, <<Anchor(<<"V">>, SiteUrl)>>),
      Anchor(TextT, SiteUrl),
      Anchor(<<"W">>, <<"#", "n">>),
      Anchor(<<>>, SiteUrl),
      ImgElement(<<".", ".", "/", "i", "/", "a">>),
      ImgElement(<<"c">>),
      ImgElement(<<>>),
      SvgElement }

\* Items: images "i/ba" and "i/a", in both orders; an image that cannot be
\* read and a document.
EpubItems ==
    { << Item(<<"i", "/", "b", "a">>, TRUE, TRUE), Item(<<"i", "/", "a">>, TRUE, TRUE) >>,
      << Item(<<"i", "/", "a">>, TRUE, TRUE), Item(<<"i", "/", "b", "a">>, TRUE, TRUE) >>,
      << Item(<<"i", "/", "a">>, TRUE, FALSE), Item(<<"t", "/", "a">>, FALSE, FALSE) >> }

EpubFiles ==
    {[items |-> items, elements |-> elements] :
        items \in EpubItems,
        elements \in UNION {[1..n -> EpubElements] : n \in 0..MaxElements}}

EpubBook == "file"

EpubInit ==
    /\ view = "library"
    /\ book_data = NoBook
    /\ file_type = ""
    /\ current_page = 0
    /\ total_pages = 0
    /\ pages = <<>>
    /\ pages_kind = "blocks"
    /\ pdf_doc = NoDoc
    /\ font_size = 18
    /\ structured_content = <<>>
    /\ toc_entries = <<>>
    /\ win = <<1200, 800>>
    /\ resize_job = 0
    /\ timers = {}
    /\ open_handles = {}
    /\ hung = FALSE
    /\ progress = NoProgress
    /\ elapsed = after_delay + 100
    /\ runs = 0
    /\ burst = 0
    /\ pdf_page_cache = <<>>
    /\ font_cache = {}
    /\ earlier = NoRun
    /\ epub_file \in EpubFiles
    /\ pag = PagIdle

\* load_book for the file, which the library holds without a stored place.
epub_load_book ==
    /\ view = "library" /\ ~hung
    /\ \E s \in {load_epub_file(TRUE, read_content(epub_file), <<>>)} :
        /\ structured_content' = s.structured_content
        /\ toc_entries' = s.toc_entries
        /\ pages' = s.pages
        /\ pages_kind' = s.pages_kind
        /\ total_pages' = s.total_pages
        /\ hung' = s.hung
        /\ progress' = IF s.hung THEN progress
                       ELSE save_progress(EpubBook, "epub", 0, s.total_pages, pdf_doc)
    /\ view' = "reader"
    /\ book_data' = EpubBook
    /\ file_type' = "epub"
    /\ current_page' = 0
    /\ UNCHANGED <<pdf_doc, font_size, win, resize_job, timers, open_handles,
                   elapsed, runs, burst, pdf_page_cache, font_cache, earlier,
                   epub_file, pag>>

epub_on_back == on_back /\ UNCHANGED <<pdf_page_cache, font_cache, earlier, epub_file>>

EpubNext == epub_load_book \/ epub_on_back

EpubSpec == EpubInit /\ [][EpubNext]_vars

\* The texts of the <p> and <h1>..<h6> elements of a file that have one, in
\* the order find_all meets them.
SourceTexts(file) ==
    LET texts == SelectSeq(find_all(file.elements),
                           LAMBDA e : e.name \in TextNames /\ get_text(e) # <<>>)
    IN  [i \in 1..Len(texts) |-> get_text(texts[i])]

\* The items of a sequence as they first occur.
FirstOccurrences(q) ==
    LET firsts == {i \in 1..Len(q) : \A j \in 1..(i - 1) : q[j] # q[i]}
        nth(k) == CHOOSE i \in firsts : Cardinality({j \in firsts : j < i}) = k - 1
    IN  [k \in 1..Cardinality(firsts) |-> q[nth(k)]]

\* The texts of the TextBlocks of a content, in order.
BlockTexts(content) ==
    LET blocks == SelectSeq(content, LAMBDA item : item.type = "text")
    IN  [i \in 1..Len(blocks) |-> blocks[i].text]

\* C21: the TextBlocks of the content of a loaded file hold the texts of its
\* paragraphs and headings, each once, in the order in which the texts first
\* occur.
C21_TextDedup ==
    (view = "reader" /\ book_data = EpubBook) =>
        BlockTexts(structured_content) = FirstOccurrences(SourceTexts(epub_file))

\* The images of the ImageBlocks of a content, in order.
BlockImages(content) ==
    LET blocks == SelectSeq(content, LAMBDA item : item.type = "image")
    IN  [i \in 1..Len(blocks) |-> blocks[i].image]

\* The image a reference names when equality of the trailing filenames goes
\* before containment: the first image whose trailing filename is the
\* reference's; without one, the first whose name contains it; else none.
PreferredImage(image_map, img_src) ==
    LET img_filename == trailing_filename(img_src)
        exact == {i \in 1..Len(image_map) :
                     img_filename = trailing_filename(image_map[i])}
        held == {i \in 1..Len(image_map) : Contains(img_filename, image_map[i])}
    IN  IF exact # {} THEN image_map[SetMin(exact)]
        ELSE IF held # {} THEN image_map[SetMin(held)]
        ELSE NoImage

\* The references of the image elements of a file that have one, in order.
ImageReferences(file) ==
    LET imgs == SelectSeq(find_all(file.elements),
                          LAMBDA e : e.name = "img" /\ e.src # <<>>)
    IN  [i \in 1..Len(imgs) |-> imgs[i].src]

\* C22: the ImageBlocks of the content of a loaded file are, in order, the
\* images its references name with exact filename equality going first;
\* a reference that names no image gives no block.
C22_ExactFilenameFirst ==
    (view = "reader" /\ book_data = EpubBook) =>
        BlockImages(structured_content) =
            SelectSeq([i \in 1..Len(ImageReferences(epub_file)) |->
                          PreferredImage(image_map_of(epub_file.items),
                                         ImageReferences(epub_file)[i])],
                      LAMBDA image : image # NoImage)

\* The anchors of a file that stand by themselves, with a text and a target
\* that begins with http:// or https://.
StandaloneLinks(file) ==
    {e \in {file.elements[i] : i \in 1..Len(file.elements)} :
        /\ e.name = "a" /\ e.text # <<>>
        /\ (StartsWith(e.href, Http) \/ StartsWith(e.href, Https))}

\* The places of a content where the TextBlock of a paragraph or heading with
\* anchors inside it is followed by a LinkBlock of one of these anchors.
SplitTexts(file, content) ==
    {i \in 1..(Len(content) - 1) :
        /\ content[i].type = "text" /\ content[i + 1].type = "link"
        /\ \E e \in {file.elements[k] : k \in 1..Len(file.elements)} :
            /\ e.name \in TextNames /\ get_text(e) = content[i].text
            /\ \E k \in 1..Len(e.anchors) : e.anchors[k].text = content[i + 1].text}

\* C23: in the content of a loaded file every LinkBlock is that of an anchor
\* that stands by itself, has a text and leads to an http or https target;
\* the TextBlock of an element with anchors inside holds them in its links
\* and is not followed by a LinkBlock of one of them.
C23_LinkBlocksStandalone ==
    (view = "reader" /\ book_data = EpubBook) =>
        /\ \A i \in 1..Len(structured_content) :
            structured_content[i].type = "link" =>
                \E e \in StandaloneLinks(epub_file) :
                    /\ e.text = structured_content[i].text
                    /\ e.href = structured_content[i].url
        /\ SplitTexts(epub_file, structured_content) = {}

\* round(a / b) for a >= 0 and b > 0, as Python rounds: to the nearest
\* integer, a half to the even one.
RoundDiv(a, b) ==
    LET q == a \div b
        r == a % b
    IN  IF 2 * r < b THEN q
        ELSE IF 2 * r > b THEN q + 1
        ELSE IF q % 2 = 0 THEN q ELSE q + 1

\* C24: a step of _on_slider_change with the slider at value p leaves the
\* spread round(p / 100 * max_spread) when max_spread > 0, and spread 0
\* otherwise.
C24_SliderRounds ==
    [][\A value \in SliderValues :
          on_slider_change(value) =>
              current_page' = IF max_spread > 0
                                  THEN RoundDiv(value * max_spread, 100)
                                  ELSE 0]_vars

\* C25: in the TOC made from the headers, the header at block position i
\* (counted from 0) has the placeholder page_index i \div 8: the counter goes
\* up after every 8 blocks.
C25_PlaceholderEveryEight ==
    (view = "reader" /\ book_data = "plain") =>
        \A e \in AllEntries(toc_entries) :
            \A i \in 1..Len(structured_content) :
                structured_content[i].text = e.title =>
                    e.page_index = (i - 1) \div 8

\* C26: when the book that was left at spread s, with the record 2 * s
\* stored for it, is opened again with that record and paginates as before,
\* the reader shows spread s again, and s is a spread of the book.
C26_PositionRoundTrips ==
    [][\A b \in BookIds, stored \in StoredPages :
          ( /\ book_data = b /\ book_data' = b /\ progress.book = b
            /\ progress.current_page = 2 * current_page
            /\ stored = progress.current_page
            /\ IF Books[b].file_type = "epub" THEN load_book_epub(b, stored)
               ELSE load_book_pdf(b, stored)
            /\ ~hung'
            /\ pages_kind' = pages_kind /\ pages' = pages )
          => /\ current_page' = current_page
             /\ current_page' \in 0..Max(0, max_spread')]_vars

\* C27: when the resize job fires while a PDF is open (_on_resize schedules
\* it for an EPUB only, so it was scheduled before the PDF was opened), pages
\* and total_pages stay the PDF's page indices and page count.
C27_ResizeJobSparesPdf ==
    [][(perform_resize_update /\ view = "reader" /\ file_type = "pdf"
            /\ pdf_doc # NoDoc)
          => /\ pages_kind' = "native"
             /\ pages' = [i \in 1..pdf_doc.page_count |-> i - 1]
             /\ total_pages' = pdf_doc.page_count]_vars

\* database.update_reading_progress: the row it stores; progress, the float
\* current_page / total_pages * 100, is kept as the fraction <<numerator,
\* denominator>>.
update_reading_progress(book_id, current, total) ==
    [id |-> book_id, current_page |-> current, total_pages |-> total,
     progress |-> IF total > 0 THEN <<current * 100, total>> ELSE <<0, 1>>]

\* C28: every update stored has current_page <= total_pages and a progress
\* between 0 and 100, which is 0 when total_pages is 0.
C28_ProgressInRange ==
    progress # NoProgress =>
        LET row == update_reading_progress(progress.book, progress.current_page,
                                           progress.total_pages)
        IN  /\ row.current_page <= row.total_pages
            /\ 0 <= row.progress[1]
            /\ row.progress[1] <= 100 * row.progress[2]
            /\ (row.total_pages = 0 => row.progress[1] = 0)

\* pdf_doc refers to no document that has been closed.
NoStaleHandle == pdf_doc # NoDoc => pdf_doc.handle \in open_handles

\* C29: pdf_doc never refers to a closed document, and load_book of a PDF
\* that cannot be opened leaves total_pages = 0, no pages and no document,
\* also when a PDF was open before.
C29_FailedPdfLoad ==
    [][/\ NoStaleHandle'
       /\ \A b \in BookIds, stored \in StoredPages :
            (/\ book_data' = b
             /\ Books[b].file_type = "pdf" /\ ~Books[b].readable
             /\ load_book_pdf(b, stored))
            => /\ total_pages' = 0
               /\ pages' = <<>>
               /\ pdf_doc' = NoDoc]_vars

\* The PDF that cannot be opened has been loaded: no pages, no document, no
\* handle left open.
C29_Witness ==
    /\ view = "reader" /\ book_data = "scan" /\ file_type = "pdf"
    /\ total_pages = 0 /\ pages = <<>>
    /\ pdf_doc = NoDoc /\ open_handles = {}

\* C30: with a PDF open, every entry of the render cache holds the photo of
\* the page of its key in that document: no entry is left of a document
\* opened before.
C30_CacheOfOpenPdf ==
    (view = "reader" /\ file_type = "pdf" /\ pdf_doc # NoDoc) =>
        \A i \in 1..Len(pdf_page_cache) :
            pdf_page_cache[i].photo = <<pdf_doc.name, pdf_page_cache[i].key[1]>>

\* A second PDF is open after another one whose pages were rendered, and
\* the cache holds pages rendered from it.
C30_Witness ==
    /\ view = "reader" /\ file_type = "pdf" /\ book_data = "manual"
    /\ pdf_doc.name = "manual" /\ progress.book = "manual"
    /\ Len(pdf_page_cache) >= 3
    /\ win = <<900, 600>>

============================================================================
